---- MODULE Spec2Model ----
(***************************************************************************)
(* Simulation core of the backtester: PositionTracker (portfolio ledger),  *)
(* RiskManager (sizing, stops, validation), OrderManager with              *)
(* SlippageSimulator (order lifecycle and fills) and TradeExecutor.        *)
(*                                                                         *)
(* Python floats are modelled as exact rationals <<n, d>> in lowest terms  *)
(* with d > 0, so equal values are equal tuples.                           *)
(***************************************************************************)
EXTENDS Integers, Sequences, FiniteSets, TLC

VARIABLES
    cash,             \* PositionTracker.cash
    positions,        \* PositionTracker.positions: symbol -> Position or None
    equity_history,   \* PositionTracker.equity_history
    trade_history,    \* PositionTracker.trade_history
    order_objs,       \* every Order object created so far, by identity
    orders,           \* OrderManager.orders: identities of the listed orders
    filled_orders,    \* OrderManager.filled_orders
    slippage_simulator, \* OrderManager.slippage_simulator is installed
    volatility_lookback, \* RiskManager.volatility_lookback
    rerun_price,      \* executed price of the last fill when the same call is run again
    engine,           \* NativeEngine.run: where it is, its bars and its results
    mt5_positions,    \* main: the open positions mt5.positions_get() answers
    call              \* the last call made and what it returned

vars == <<cash, positions, equity_history, trade_history, order_objs, orders,
          filled_orders, slippage_simulator, volatility_lookback, rerun_price,
          engine, mt5_positions, call>>

portfolio_vars == <<cash, positions, equity_history, trade_history>>
order_vars == <<order_objs, orders, filled_orders, rerun_price>>
config_vars == <<slippage_simulator, volatility_lookback>>
live_vars == <<mt5_positions>>

\* ------------------------------------------------------------------ bounds
MaxTrades == 3        \* records in trade_history, open/close sequences
MaxLedgerTrades == 2  \* records in trade_history, when equity is sampled too
MaxRiskTrades == 1    \* records in trade_history, when trades are validated
MaxExecTrades == 2    \* records in trade_history, when signals are executed
MaxSamples == 1       \* samples in equity_history
MaxOrders == 2        \* Order objects created
MaxRetryTrades == 1   \* records in trade_history, when rejected signals are retried
MaxRetrySamples == 2  \* samples in equity_history, when rejected signals are retried
MaxBars == 52         \* bars in the DataFrame given to NativeEngine.run
MaxFrameOrders == 1   \* Order objects created, next to a portfolio in use
MaxFills == 1         \* orders filled

\* ------------------------------------------------------- float arithmetic
None == <<>>       \* Python None
NoError == "none"   \* the call returned normally

Abs(x) == IF x < 0 THEN -x ELSE x

\* The arithmetic is written as functions of the operands' values, so that
\* an operand is evaluated once however often the body uses it.
gcd[p \in Nat \X Nat] == IF p[2] = 0 THEN p[1] ELSE gcd[<<p[2], p[1] % p[2]>>]
GCD(a, b) == gcd[<<a, b>>]

\* n/d in lowest terms, d > 0 (d # 0 required)
norm[p \in Int \X Int] ==
    LET g == gcd[<<Abs(p[1]), Abs(p[2])>>]
        s == IF p[2] < 0 THEN -1 ELSE 1
    IN  <<s * (p[1] \div g), s * (p[2] \div g)>>
Norm(n, d) == norm[<<n, d>>]

Rat == Int \X Int
R(n) == <<n, 1>>
RNeg(x) == <<-x[1], x[2]>>
radd[p \in Rat \X Rat] ==
    LET x == p[1]
        y == p[2]
        g == gcd[<<x[2], y[2]>>]
    IN  norm[<<x[1] * (y[2] \div g) + y[1] * (x[2] \div g), (x[2] \div g) * y[2]>>]
RAdd(x, y) == radd[<<x, y>>]
RSub(x, y) == radd[<<x, RNeg(y)>>]
rmul[p \in Rat \X Rat] ==
    LET x == p[1]
        y == p[2]
        g1 == gcd[<<Abs(x[1]), y[2]>>]
        g2 == gcd[<<Abs(y[1]), x[2]>>]
    IN  norm[<<(x[1] \div g1) * (y[1] \div g2), (x[2] \div g2) * (y[2] \div g1)>>]
RMul(x, y) == rmul[<<x, y>>]
\* x / y, y # 0
rinv[y \in Rat] == norm[<<y[2], y[1]>>]
RDiv(x, y) == rmul[<<x, rinv[y]>>]
\* x < y, on the cross products with the common factors taken out
rlt[p \in Rat \X Rat] ==
    LET x == p[1]
        y == p[2]
        gn == gcd[<<Abs(x[1]), Abs(y[1])>>]
        gd == gcd[<<x[2], y[2]>>]
    IN  IF gn = 0 THEN FALSE
        ELSE (x[1] \div gn) * (y[2] \div gd) < (y[1] \div gn) * (x[2] \div gd)
RLt(x, y) == rlt[<<x, y>>]
RLe(x, y) == ~rlt[<<y, x>>]
RAbs(x) == <<Abs(x[1]), x[2]>>
rmin[p \in Rat \X Rat] == IF RLt(p[2], p[1]) THEN p[2] ELSE p[1]
rmax[p \in Rat \X Rat] == IF RLt(p[1], p[2]) THEN p[2] ELSE p[1]
RMin(x, y) == rmin[<<x, y>>]
RMax(x, y) == rmax[<<x, y>>]
Zero == R(0)

RECURSIVE RSum(_)
RSum(s) == IF s = <<>> THEN Zero ELSE RAdd(s[1], RSum(Tail(s)))

\* ------------------------------------------------------------- input sets
Symbols == {"EURUSD", "GBPUSD"}
Sides == {"BUY", "SELL"}
Prices == {R(1), R(2)}
Sizes == {R(1), R(2)}

initial_balance == 10000

\* ---------------------------------------------------------- PositionTracker
Position(symbol, side, price, size, sl, tp) ==
    [symbol |-> symbol, side |-> side, entry_price |-> price, size |-> size,
     sl_price |-> sl, tp_price |-> tp]

has_position(symbol) == positions[symbol] # None

\* an equity read off the cash balance
cash_balance == cash

get_total_equity ==
    IF equity_history # <<>> THEN equity_history[Len(equity_history)]
    ELSE R(initial_balance)

\* realized or unrealized P&L of a position at a price
pnl_at(position, price) ==
    IF position.side = "BUY"
    THEN RMul(RSub(price, position.entry_price), position.size)
    ELSE RMul(RSub(position.entry_price, price), position.size)

\* effect of PositionTracker.open_position on the portfolio
open_position_effect(symbol, side, price, size, sl, tp) ==
    /\ positions' = [positions EXCEPT ![symbol] = Position(symbol, side, price, size, sl, tp)]
    /\ cash' = RSub(cash, RMul(price, size))
    /\ trade_history' = Append(trade_history,
            [action |-> "OPEN", symbol |-> symbol, side |-> side,
             price |-> price, size |-> size])
    /\ UNCHANGED equity_history

open_position(symbol, side, price, size) ==
    /\ open_position_effect(symbol, side, price, size, None, None)
    /\ call' = [op |-> "open_position", symbol |-> symbol, had_position |-> has_position(symbol),
                raised |-> NoError, result |-> <<"Position">>]
    /\ UNCHANGED <<order_vars, config_vars, engine, live_vars>>

\* a close_position that books an empty trade for a symbol it does not hold
close_missing_books(symbol, exit_price) ==
    /\ trade_history' = Append(trade_history,
            [action |-> "CLOSE", symbol |-> symbol, side |-> "BUY",
             entry_price |-> exit_price, exit_price |-> exit_price,
             size |-> Zero, pnl |-> Zero, reason |-> "MANUAL"])
    /\ UNCHANGED <<cash, positions, equity_history>>
    /\ call' = [op |-> "close_position", symbol |-> symbol, had_position |-> FALSE,
                raised |-> NoError, result |-> <<"trade_record">>]

\* close_position when the symbol has no position: return None
close_missing(symbol, exit_price) ==
    /\ UNCHANGED portfolio_vars
    /\ call' = [op |-> "close_position", symbol |-> symbol, had_position |-> FALSE,
                raised |-> NoError, result |-> None]

\* close_position when the symbol has a position
close_existing(symbol, exit_price) ==
    LET position == positions[symbol]
        pnl == pnl_at(position, exit_price)
    IN  /\ cash' = RAdd(cash, RAdd(RMul(position.entry_price, position.size), pnl))
        /\ trade_history' = Append(trade_history,
                [action |-> "CLOSE", symbol |-> symbol, side |-> position.side,
                 entry_price |-> position.entry_price, exit_price |-> exit_price,
                 size |-> position.size, pnl |-> pnl, reason |-> "MANUAL"])
        /\ positions' = [positions EXCEPT ![symbol] = None]
        /\ UNCHANGED equity_history
        /\ call' = [op |-> "close_position", symbol |-> symbol, had_position |-> TRUE,
                    raised |-> NoError, result |-> <<"trade_record">>]

close_position(symbol, exit_price) ==
    /\ IF ~has_position(symbol)
       THEN close_missing(symbol, exit_price)
       ELSE close_existing(symbol, exit_price)
    /\ UNCHANGED <<order_vars, config_vars, engine, live_vars>>

\* current_prices is a dict: a symbol may be missing from it
PriceMaps == [Symbols -> Prices \cup {None}]

unrealized_pnl(current_prices) ==
    LET held == {s \in Symbols : positions[s] # None}
        term(s) == pnl_at(positions[s],
                          IF current_prices[s] # None THEN current_prices[s]
                          ELSE positions[s].entry_price)
        RECURSIVE total(_)
        total(S) == IF S = {} THEN Zero
                    ELSE LET s == CHOOSE x \in S : TRUE
                         IN  RAdd(term(s), total(S \ {s}))
    IN  total(held)

\* an equity that counts the entry notional of the open positions as well
update_equity_with_notional(current_prices) ==
    LET held == {s \in Symbols : positions[s] # None}
        RECURSIVE notional(_)
        notional(S) == IF S = {} THEN Zero
                       ELSE LET s == CHOOSE x \in S : TRUE
                            IN  RAdd(RMul(positions[s].entry_price, positions[s].size),
                                     notional(S \ {s}))
        current_equity == RAdd(RAdd(cash, unrealized_pnl(current_prices)), notional(held))
    IN  /\ equity_history' = Append(equity_history, current_equity)
        /\ call' = [op |-> "update_equity",
                    prices_read |-> [s \in Symbols |-> IF has_position(s)
                                                       THEN current_prices[s] ELSE None],
                    raised |-> NoError, result |-> current_equity]
        /\ UNCHANGED <<cash, positions, trade_history, order_vars, config_vars, engine, live_vars>>

update_equity(current_prices) ==
    LET current_equity == RAdd(cash, unrealized_pnl(current_prices))
    IN  /\ equity_history' = Append(equity_history, current_equity)
        /\ call' = [op |-> "update_equity",
                    prices_read |-> [s \in Symbols |-> IF has_position(s)
                                                       THEN current_prices[s] ELSE None],
                    raised |-> NoError, result |-> current_equity]
        /\ UNCHANGED <<cash, positions, trade_history, order_vars, config_vars, engine, live_vars>>

\* get_position, has_position and get_total_equity: answers only
portfolio_reads(symbol) ==
    /\ call' = [op |-> "portfolio_reads", symbol |-> symbol, raised |-> NoError,
                result |-> [get_position |-> positions[symbol],
                            has_position |-> has_position(symbol),
                            get_total_equity |-> get_total_equity]]
    /\ UNCHANGED <<portfolio_vars, order_vars, config_vars, engine, live_vars>>

\* --------------------------------------------------------------- RiskManager
\* constructor defaults
max_position_size == <<1, 10>>     \* 10% of portfolio per trade
max_daily_loss == <<1, 50>>        \* 2% max daily loss
risk_per_trade == <<1, 100>>       \* 1% risk per trade

\* a size that takes the risk amount times the stop distance
widening_position_size(entry_price, stop_loss) ==
    LET stop_distance == RAbs(RSub(entry_price, stop_loss))
        base_size == RMul(RMul(get_total_equity, risk_per_trade), stop_distance)
        max_size_by_portfolio ==
            RDiv(RMul(get_total_equity, max_position_size), entry_price)
    IN  IF stop_distance = Zero THEN Zero
        ELSE RMax(RMin(base_size, max_size_by_portfolio), Zero)

\* a size from the risk amount alone, without the portfolio percentage cap
uncapped_position_size(entry_price, stop_loss) ==
    LET stop_distance == RAbs(RSub(entry_price, stop_loss))
    IN  IF stop_distance = Zero THEN Zero
        ELSE RMax(RDiv(RMul(get_total_equity, risk_per_trade), stop_distance), Zero)

calculate_position_size(entry_price, stop_loss) ==
    LET portfolio_equity == get_total_equity
        risk_amount == RMul(portfolio_equity, risk_per_trade)
        stop_distance == RAbs(RSub(entry_price, stop_loss))
        base_size == RDiv(risk_amount, stop_distance)
        max_size_by_portfolio ==
            RDiv(RMul(portfolio_equity, max_position_size), entry_price)
        position_size == RMin(base_size, max_size_by_portfolio)
    IN  IF stop_distance = Zero THEN Zero ELSE RMax(position_size, Zero)

calculate_position_size_call(entry_price, stop_loss) ==
    /\ call' = [op |-> "calculate_position_size", entry_price |-> entry_price,
                stop_loss |-> stop_loss, raised |-> NoError,
                result |-> calculate_position_size(entry_price, stop_loss)]
    /\ UNCHANGED <<portfolio_vars, order_vars, config_vars, engine, live_vars>>

\* validate_trade, position size limit
exceeds_max(equity, size, price) ==
    RLt(RMul(equity, max_position_size), RMul(size, price))

\* a validate_trade that does not look at the open positions
never_in_position(symbol) == FALSE

\* validate_trade, check if already in position
already_in_position(symbol) == has_position(symbol)

\* validate_trade, daily loss limit; the division fails on a zero sample
daily_loss(history) ==
    LET n == Len(history)
    IN  IF n > 1
        THEN IF history[n - 1] = Zero
             THEN [raised |-> "ZeroDivisionError", breached |-> FALSE]
             ELSE [raised |-> NoError,
                   breached |-> RLt(RSub(RDiv(history[n], history[n - 1]), R(1)),
                                    RNeg(max_daily_loss))]
        ELSE [raised |-> NoError, breached |-> FALSE]

validate_trade(symbol, size, price) ==
    LET equity == get_total_equity
        oversize == exceeds_max(equity, size, price)
        existing == already_in_position(symbol)
        loss == daily_loss(equity_history)
    IN  [raised |-> IF oversize /\ equity = Zero
                    THEN "ZeroDivisionError"   \* position_value/equity in the reason
                    ELSE loss.raised,
         is_valid |-> ~oversize /\ ~existing /\ ~loss.breached,
         reasons |-> (IF oversize THEN <<"position size exceeds max">> ELSE <<>>)
                     \o (IF existing THEN <<"already in position">> ELSE <<>>)
                     \o (IF loss.breached THEN <<"daily loss exceeds limit">> ELSE <<>>),
         adjusted_size |-> IF oversize
                           THEN RDiv(RMul(equity, max_position_size), price)
                           ELSE size]

\* mean of high - low over the last `lookback` bars of df
RECURSIVE range_sum(_, _)
range_sum(df, k) ==
    IF k = 0 THEN Zero
    ELSE RAdd(RSub(df[Len(df)].high, df[Len(df)].low),
              range_sum(SubSeq(df, 1, Len(df) - 1), k - 1))

\* stops from the range of the bars at hand, however few they are
ranged_stops(df, entry_price, side) ==
    LET atr == RDiv(range_sum(df, Len(df)), R(Len(df)))
    IN  IF side = "BUY"
        THEN [sl |-> RSub(entry_price, RMul(R(2), atr)),
              tp |-> RAdd(entry_price, RMul(R(3), atr)), atr |-> atr]
        ELSE [sl |-> RAdd(entry_price, RMul(R(2), atr)),
              tp |-> RSub(entry_price, RMul(R(3), atr)), atr |-> atr]

calculate_dynamic_stops(df, entry_price, side) ==
    LET atr == IF Len(df) >= volatility_lookback
               THEN RDiv(range_sum(df, volatility_lookback), R(volatility_lookback))
               ELSE RMul(entry_price, <<1, 500>>)
    IN  IF side = "BUY"
        THEN [sl |-> RSub(entry_price, RMul(R(2), atr)),
              tp |-> RAdd(entry_price, RMul(R(3), atr)), atr |-> atr]
        ELSE [sl |-> RAdd(entry_price, RMul(R(2), atr)),
              tp |-> RSub(entry_price, RMul(R(3), atr)), atr |-> atr]

\* a direct call of validate_trade: reads the portfolio, changes nothing
validate_trade_call(symbol, size, price) ==
    /\ call' = [op |-> "validate_trade", symbol |-> symbol, size |-> size,
                price |-> price, raised |-> validate_trade(symbol, size, price).raised,
                result |-> IF validate_trade(symbol, size, price).raised # NoError
                           THEN None
                           ELSE validate_trade(symbol, size, price)]
    /\ UNCHANGED <<portfolio_vars, order_vars, config_vars, engine, live_vars>>

\* --------------------------------------------------------- SlippageSimulator
\* constructor defaults
base_slippage == <<1, 20000>>      \* 0.00005
volatility_factor == R(2)
spread_ratio == <<1, 10000>>       \* 0.0001

\* draws of np.random.normal(0, volatility_factor * 0.0001): the generator is
\* numpy's global one, so any value may come out of any call
NoiseDraws == {<<-1, 5000>>, Zero}

apply_slippage(order, current_price, volatility_component) ==
    LET size_impact == RMin(RDiv(order.size, R(100000)), <<1, 1000>>)
        slippage == RAdd(RAdd(base_slippage, size_impact), RAbs(volatility_component))
        spread_cost == RDiv(spread_ratio, R(2))
        executed_price ==
            IF order.side = "BUY"
            THEN RAdd(RAdd(current_price, slippage), spread_cost)
            ELSE RSub(RSub(current_price, slippage), spread_cost)
    IN  RMax(executed_price, <<1, 100000>>)

\* -------------------------------------------------------------- OrderManager
Order(symbol, side, order_type, size, price, sl, tp) ==
    [symbol |-> symbol, side |-> side, order_type |-> order_type, size |-> size,
     price |-> price, sl_price |-> sl, tp_price |-> tp, status |-> "PENDING"]

\* the listed orders of `listed` whose status in `objs` is PENDING
pending_of(listed, objs) ==
    LET keep(i) == objs[i].status = "PENDING"
    IN  SelectSeq(listed, keep)

\* a removal that takes the head of the list, whatever order is cancelled
list_pop_first(listed, objs, id) == Tail(listed)

\* list.remove(x): drops the first element identical or equal to x
list_remove(listed, objs, id) ==
    LET hit == {i \in 1..Len(listed) : listed[i] = id \/ objs[listed[i]] = objs[id]}
        k == CHOOSE i \in hit : \A j \in hit : i <= j
    IN  [i \in 1..(Len(listed) - 1) |-> IF i < k THEN listed[i] ELSE listed[i + 1]]

create_order_effect(symbol, side, size, order_type, price, sl, tp) ==
    /\ order_objs' = Append(order_objs, Order(symbol, side, order_type, size, price, sl, tp))
    /\ orders' = Append(orders, Len(order_objs) + 1)

create_order(symbol, side, size) ==
    /\ create_order_effect(symbol, side, size, "MARKET", None, None, None)
    /\ call' = [op |-> "create_order", order |-> Len(order_objs) + 1,
                raised |-> NoError, result |-> <<"Order">>]
    /\ UNCHANGED <<filled_orders, rerun_price, portfolio_vars, config_vars, engine, live_vars>>

\* the price execute_order fills at, given the draw of the noise
fill_price(order, current_price, draw) ==
    IF slippage_simulator THEN apply_slippage(order, current_price, draw)
    ELSE current_price

\* a fill whose slippage is counted from the executed price to the reference
fill_result_reversed(id, order, current_price, executed_price) ==
    [success |-> TRUE, order_id |-> id, symbol |-> order.symbol, side |-> order.side,
     size |-> order.size, requested_price |-> current_price,
     executed_price |-> executed_price,
     slippage |-> RSub(current_price, executed_price)]

fill_result(id, order, current_price, executed_price) ==
    [success |-> TRUE, order_id |-> id, symbol |-> order.symbol, side |-> order.side,
     size |-> order.size, requested_price |-> current_price,
     executed_price |-> executed_price,
     slippage |-> RSub(executed_price, current_price)]

already_processed == [success |-> FALSE, reason |-> "Order already processed"]

\* execute_order on an order that is not PENDING
execute_processed(id, current_price) ==
    /\ UNCHANGED <<order_objs, orders, filled_orders, rerun_price>>
    /\ call' = [op |-> "execute_order", order |-> id, was_pending |-> FALSE,
                raised |-> NoError, result |-> already_processed]

\* execute_order on a PENDING order
execute_pending(id, current_price, draw, redraw) ==
    LET order == order_objs[id]
        executed_price == fill_price(order, current_price, draw)
        fill == fill_result(id, order, current_price, executed_price)
        objs == [order_objs EXCEPT ![id].status = "FILLED", ![id].price = executed_price]
    IN  /\ order_objs' = objs
        /\ filled_orders' = Append(filled_orders, fill)
        /\ orders' = pending_of(orders, objs)
        /\ rerun_price' = fill_price(order, current_price, redraw)
        /\ call' = [op |-> "execute_order", order |-> id, was_pending |-> TRUE,
                    current_price |-> current_price, raised |-> NoError,
                    result |-> fill]

\* an execute_order that fills whatever order it is given
execute_order_unguarded(id, current_price, draw, redraw) ==
    /\ execute_pending(id, current_price, draw, redraw)
    /\ UNCHANGED <<portfolio_vars, config_vars, engine, live_vars>>

\* an execute_order that settles the fill against the portfolio's cash
execute_order_settles(id, current_price, draw, redraw) ==
    /\ IF order_objs[id].status # "PENDING"
       THEN execute_processed(id, current_price)
       ELSE execute_pending(id, current_price, draw, redraw)
    /\ cash' = RSub(cash, RMul(current_price, order_objs[id].size))
    /\ UNCHANGED <<positions, equity_history, trade_history, config_vars, engine, live_vars>>

execute_order(id, current_price, draw, redraw) ==
    /\ IF order_objs[id].status # "PENDING"
       THEN execute_processed(id, current_price)
       ELSE execute_pending(id, current_price, draw, redraw)
    /\ UNCHANGED <<portfolio_vars, config_vars, engine, live_vars>>

cancel_order(id) ==
    /\ IF order_objs[id].status = "PENDING"
       THEN LET objs == [order_objs EXCEPT ![id].status = "CANCELLED"]
            IN  /\ order_objs' = objs
                /\ orders' = list_remove(orders, objs, id)
                /\ call' = [op |-> "cancel_order", order |-> id, was_pending |-> TRUE,
                            raised |-> NoError, result |-> <<TRUE>>]
       ELSE /\ UNCHANGED <<order_objs, orders>>
            /\ call' = [op |-> "cancel_order", order |-> id, was_pending |-> FALSE,
                        raised |-> NoError, result |-> <<FALSE>>]
    /\ UNCHANGED <<filled_orders, rerun_price, portfolio_vars, config_vars, engine, live_vars>>

get_pending_orders == pending_of(orders, order_objs)
has_pending_orders == \E i \in 1..Len(orders) : order_objs[orders[i]].status = "PENDING"

\* -------------------------------------------------------------- TradeExecutor
\* a position entered at the price that was asked for
entry_at_request(fill) == fill.requested_price

\* the price open_position is given on a successful fill
entry_at_fill(fill) == fill.executed_price

\* a rejection that still leaves a PENDING order with the OrderManager
trade_rejected_order_kept(made) ==
    /\ create_order_effect(made.symbol, made.signal, made.size, "MARKET", None,
                           made.sl, made.tp)
    /\ call' = made @@ [raised |-> NoError, result |-> None]
    /\ UNCHANGED <<portfolio_vars, filled_orders, rerun_price, config_vars, engine, live_vars>>

\* validation failed: print the reasons and return None
trade_rejected(made) ==
    /\ call' = made @@ [raised |-> NoError, result |-> None]
    /\ UNCHANGED <<portfolio_vars, order_vars, config_vars, engine, live_vars>>

\* the trade of a BUY or SELL signal, once stops, size and validation are known
place_trade(signal, current_price, symbol, stops, sized, validation, draw, redraw) ==
    LET position_size == IF validation.adjusted_size # sized
                         THEN validation.adjusted_size ELSE sized
        id == Len(order_objs) + 1
        order == Order(symbol, signal, "MARKET", position_size, None, stops.sl, stops.tp)
        made == [op |-> "execute_trade_signal", signal |-> signal, symbol |-> symbol,
                 had_position |-> has_position(symbol), entry_price |-> current_price,
                 sl |-> stops.sl, tp |-> stops.tp, size |-> sized,
                 validation |-> validation]
    IN  IF validation.raised # NoError
        THEN /\ call' = made @@ [raised |-> validation.raised, result |-> None]
             /\ UNCHANGED <<portfolio_vars, order_vars, config_vars, engine, live_vars>>
        ELSE IF ~validation.is_valid
        THEN trade_rejected(made)
        ELSE \E executed_price \in {fill_price(order, current_price, draw)} :
             \E fill \in {fill_result(id, order, current_price, executed_price)} :
             \E objs \in {Append(order_objs, [order EXCEPT !.status = "FILLED",
                                                          !.price = executed_price])} :
             /\ order_objs' = objs
             /\ orders' = pending_of(Append(orders, id), objs)
             /\ filled_orders' = Append(filled_orders, fill)
             /\ rerun_price' = fill_price(order, current_price, redraw)
             /\ open_position_effect(symbol, signal, entry_at_fill(fill), position_size,
                                     stops.sl, stops.tp)
             /\ call' = made @@ [raised |-> NoError, result |-> fill]
             /\ UNCHANGED <<config_vars, engine, live_vars>>

execute_trade_signal(signal, current_data, symbol, draw, redraw) ==
    IF signal \notin {"BUY", "SELL"}
    THEN /\ call' = [op |-> "execute_trade_signal", signal |-> signal,
                     symbol |-> symbol, had_position |-> has_position(symbol),
                     raised |-> NoError, result |-> None]
         /\ UNCHANGED <<portfolio_vars, order_vars, config_vars, engine, live_vars>>
    ELSE \E current_price \in {current_data.close} :
         \E stops \in {calculate_dynamic_stops(<<current_data>>, current_price, signal)} :
         \E sized \in {calculate_position_size(current_price, stops.sl)} :
         \E validation \in {validate_trade(symbol, sized, current_price)} :
            place_trade(signal, current_price, symbol, stops, sized, validation,
                        draw, redraw)

\* --------------------------------------------------------------- NativeEngine
\* what the objects given to NativeEngine.initialize can be asked to do
PositionTracker_methods ==
    {"open_position", "close_position", "update_equity", "get_position",
     "has_position", "get_total_equity"}
TradeExecutor_methods == {"execute_trade_signal"}

\* the loop starts at bar 50, with the 50 bars before it as the window
warmup == 50

\* the strategy is given the bars i - 50 .. i - 1: df.iloc[i-50:i]
window_bars == 50
window(i) == [first |-> i - window_bars, last |-> i - 1]

\* a run that starts its loop at the first bar
run_start_cold(n) ==
    /\ engine.state = "INIT"
    /\ engine' = [state |-> "RUNNING", bars |-> n, i |-> 0, equity_curve |-> <<>>,
                  trades |-> <<>>, signals |-> <<>>, raised |-> NoError]
    /\ call' = [op |-> "run", bars |-> n, raised |-> NoError, result |-> None]
    /\ UNCHANGED <<portfolio_vars, order_vars, config_vars, live_vars>>

\* before run is called
engine_idle ==
    [state |-> "INIT", bars |-> 0, i |-> 0, equity_curve |-> <<>>, trades |-> <<>>,
     signals |-> <<>>, raised |-> NoError]

\* run(df) with len(df) = n: empty results, the loop is about to start
run_start(n) ==
    /\ engine.state = "INIT"
    /\ engine' = [engine_idle EXCEPT !.state = "RUNNING", !.bars = n, !.i = warmup]
    /\ call' = [op |-> "run", bars |-> n, raised |-> NoError, result |-> None]
    /\ UNCHANGED <<portfolio_vars, order_vars, config_vars, live_vars>>

\* an exception leaves run: nothing is returned
run_raises(signal, error) ==
    /\ engine' = [engine EXCEPT !.state = "FAILED", !.raised = error]
    /\ call' = [op |-> "run_step", i |-> engine.i, window |-> window(engine.i),
                signal |-> signal, raised |-> error, result |-> None]

\* the end of one pass of the loop: the equity and the signal are recorded
run_records(signal, traded, equity) ==
    /\ engine' = [engine EXCEPT !.i = @ + 1,
                                !.trades = @ \o traded,
                                !.equity_curve = Append(@, equity),
                                !.signals = Append(@, signal)]
    /\ call' = [op |-> "run_step", i |-> engine.i, window |-> window(engine.i),
                signal |-> signal, raised |-> NoError, result |-> None]

\* one pass of the loop of run, for bar i; position_action, trade_result and
\* equity are what the portfolio and the execution manager answer
run_step(signal, position_action, trade_result, equity) ==
    /\ engine.state = "RUNNING"
    /\ engine.i < engine.bars
    /\ IF "evaluate_position" \notin PositionTracker_methods
       THEN run_raises(signal, "AttributeError")
       ELSE IF position_action.should_trade
               /\ "execute_trade" \notin TradeExecutor_methods
       THEN run_raises(signal, "AttributeError")
       ELSE IF "get_current_equity" \notin PositionTracker_methods
       THEN run_raises(signal, "AttributeError")
       ELSE run_records(signal,
                        IF position_action.should_trade /\ trade_result # None
                        THEN <<trade_result>> ELSE <<>>,
                        equity)
    /\ UNCHANGED <<portfolio_vars, order_vars, config_vars, live_vars>>

\* the loop is over: run returns results
run_return ==
    /\ engine.state = "RUNNING"
    /\ engine.i >= engine.bars
    /\ engine' = [engine EXCEPT !.state = "DONE"]
    /\ call' = [op |-> "run", bars |-> engine.bars, raised |-> NoError,
                result |-> [equity_curve |-> engine.equity_curve,
                            trades |-> engine.trades,
                            signals |-> engine.signals]]
    /\ UNCHANGED <<portfolio_vars, order_vars, config_vars, live_vars>>

\* ------------------------------------------------------ main, live trading
MAX_CONCURRENT_TRADES == 3

\* get_open_positions(symbol), as the places of its positions in mt5_positions
get_open_positions(symbol) ==
    {i \in 1..Len(mt5_positions) : mt5_positions[i].symbol = symbol}

\* the positions MT5 still holds once those in `closed` are closed
still_open(closed) ==
    LET keep(i) == i \notin closed
        places == SelectSeq([i \in 1..Len(mt5_positions) |-> i], keep)
    IN  [i \in 1..Len(places) |-> mt5_positions[places[i]]]

\* can_open_new_trade(), after the positions in `closed` were closed
can_open_new_trade(closed) ==
    Len(mt5_positions) - Cardinality(closed) < MAX_CONCURRENT_TRADES

\* the loop over existing_positions: a position against the signal is closed
\* (closes[i] tells whether MT5 closed it), one along the signal lets the
\* iteration go on while another trade can be opened and ends it otherwise
RECURSIVE review_positions(_, _, _, _)
review_positions(todo, action, closes, closed) ==
    IF todo = {} THEN [returned |-> FALSE, closed |-> closed]
    ELSE LET k == CHOOSE i \in todo : \A j \in todo : i <= j
         IN  IF mt5_positions[k].type # action
             THEN review_positions(todo \ {k}, action, closes,
                                   IF closes[k] THEN closed \cup {k} ELSE closed)
             ELSE IF can_open_new_trade(closed)
             THEN review_positions(todo \ {k}, action, closes, closed)
             ELSE [returned |-> TRUE, closed |-> closed]

\* trading_iteration(symbol): can_trade is RISK_MANAGER.can_trade(), action the
\* combined signal, sent whether execute_trade got its order done
trading_iteration(symbol, can_trade, action, closes, sent) ==
    LET made == [op |-> "trading_iteration", symbol |-> symbol,
                 had_position |-> get_open_positions(symbol) # {},
                 raised |-> NoError, result |-> None]
    IN  /\ IF ~can_trade
           THEN /\ call' = made @@ [decision_requested |-> FALSE, action |-> None,
                                    open_count |-> Len(mt5_positions),
                                    executed |-> FALSE]
                /\ UNCHANGED mt5_positions
           ELSE IF action \notin {"BUY", "SELL"}
           THEN /\ call' = made @@ [decision_requested |-> TRUE, action |-> <<action>>,
                                    open_count |-> Len(mt5_positions),
                                    executed |-> FALSE]
                /\ UNCHANGED mt5_positions
           ELSE \E loop \in {review_positions(get_open_positions(symbol), action,
                                               closes, {})} :
                \E left \in {still_open(loop.closed)} :
                \E executed \in {~loop.returned /\ can_open_new_trade(loop.closed)} :
                /\ call' = made @@ [decision_requested |-> TRUE, action |-> <<action>>,
                                    open_count |-> Len(left), executed |-> executed]
                /\ mt5_positions' =
                      IF executed /\ sent
                      THEN Append(left, [symbol |-> symbol, type |-> action])
                      ELSE left
        /\ UNCHANGED <<portfolio_vars, order_vars, config_vars, engine>>

\* ------------------------------------------------------------------- Init
Init ==
    /\ cash = R(initial_balance)
    /\ positions = [s \in Symbols |-> None]
    /\ equity_history = <<>>
    /\ trade_history = <<>>
    /\ order_objs = <<>>
    /\ orders = <<>>
    /\ filled_orders = <<>>
    /\ slippage_simulator \in BOOLEAN
    /\ volatility_lookback \in {1, 20}
    /\ rerun_price = None
    /\ engine = engine_idle
    /\ mt5_positions = <<>>
    /\ call = [op |-> "init", raised |-> NoError, result |-> None]

\* ------------------------------------------------ PositionTracker, direct
\* sequences of open_position and close_position
NextOpenClose ==
    \/ /\ Len(trade_history) < MaxTrades
       /\ \E s \in Symbols, side \in Sides, p \in Prices, z \in Sizes :
             open_position(s, side, p, z)
    \/ \E s \in Symbols, p \in Prices :
          /\ has_position(s) => Len(trade_history) < MaxTrades
          /\ close_position(s, p)

\* PositionTracker(initial_balance) on its own: no executor is configured
InitTracker == Init /\ ~slippage_simulator /\ volatility_lookback = 20

SpecOpenClose == InitTracker /\ [][NextOpenClose]_vars

\* open_position, close_position and update_equity
NextTracker ==
    \/ /\ Len(trade_history) < MaxLedgerTrades
       /\ \E s \in Symbols, side \in Sides, p \in Prices, z \in Sizes :
             open_position(s, side, p, z)
    \/ \E s \in Symbols, p \in Prices :
          /\ has_position(s) => Len(trade_history) < MaxLedgerTrades
          /\ close_position(s, p)
    \/ /\ Len(equity_history) < MaxSamples
       /\ \E m \in PriceMaps : update_equity(m)

SpecTracker == InitTracker /\ [][NextTracker]_vars

\* ---------------------------------------------------- OrderManager, direct
OrderSizes == {R(-1000), R(50)}
ReferencePrices == {R(1), <<1, 1000000>>}

NextOrders ==
    \/ /\ Len(order_objs) < MaxOrders
       /\ \E side \in Sides, z \in OrderSizes : create_order("EURUSD", side, z)
    \/ \E id \in 1..Len(order_objs), p \in ReferencePrices :
          /\ order_objs[id].status = "PENDING" => Len(filled_orders) < MaxFills
          /\ IF order_objs[id].status = "PENDING" /\ slippage_simulator
             THEN \E draw \in NoiseDraws, redraw \in NoiseDraws :
                    execute_order(id, p, draw, redraw)
             ELSE execute_order(id, p, Zero, Zero)
    \/ \E id \in 1..Len(order_objs) : cancel_order(id)

\* OrderManager(slippage_simulator) on its own, with or without a simulator
InitOrders == Init /\ volatility_lookback = 20

SpecOrders == InitOrders /\ [][NextOrders]_vars

\* ------------------------------------------------------ RiskManager, direct
ProposedSizes == {R(500), R(1000), R(2000)}
HeldSizes == {R(500), R(2000)}

NextRisk ==
    \/ /\ Len(trade_history) < MaxRiskTrades
       /\ \E s \in Symbols, side \in Sides, p \in Prices, z \in HeldSizes :
             open_position(s, side, p, z)
    \/ \E s \in Symbols, p \in Prices :
          /\ has_position(s) => Len(trade_history) < MaxRiskTrades
          /\ close_position(s, p)
    \/ /\ Len(equity_history) < MaxSamples
       /\ \E m \in PriceMaps : update_equity(m)
    \/ \E s \in Symbols, z \in ProposedSizes, p \in Prices : validate_trade_call(s, z, p)

SpecRisk == InitTracker /\ [][NextRisk]_vars

\* ------------------------------------------------------------ TradeExecutor
Signals == {"BUY", "SELL", "NONE"}
\* draws that put the fills on multiples of 0.001, which keeps the exact
\* arithmetic of a run of trades within TLC's integers
ExecNoiseDraws == {<<-9, 10000>>, <<19, 10000>>}
Bars == {[high |-> R(1), low |-> R(1), close |-> R(1)],
         [high |-> R(2), low |-> R(1), close |-> R(2)]}

\* signals go through the executor; positions are closed and equity is
\* marked on the portfolio
NextExecutor ==
    \/ \E sig \in Signals, bar \in Bars, s \in Symbols :
          /\ IF slippage_simulator
             THEN \E draw \in ExecNoiseDraws, redraw \in ExecNoiseDraws :
                    execute_trade_signal(sig, bar, s, draw, redraw)
             ELSE execute_trade_signal(sig, bar, s, Zero, Zero)
          /\ Len(trade_history') <= MaxExecTrades
    \/ \E s \in Symbols, p \in Prices :
          /\ has_position(s) => Len(trade_history) < MaxExecTrades
          /\ close_position(s, p)

\* the executor with or without a SlippageSimulator; with one, the sizes stay
\* in the capped range of the market impact (volatility_lookback = 20)
InitExecutor == Init /\ (slippage_simulator => volatility_lookback = 20)

SpecExecutor == InitExecutor /\ [][NextExecutor]_vars

\* signals through the executor without a SlippageSimulator, interleaved with
\* close_position and update_equity
NextSignals ==
    \/ \E sig \in Signals, bar \in Bars, s \in Symbols :
          /\ execute_trade_signal(sig, bar, s, Zero, Zero)
          /\ Len(trade_history') <= MaxExecTrades
    \/ \E s \in Symbols, p \in Prices :
          /\ has_position(s) => Len(trade_history) < MaxExecTrades
          /\ close_position(s, p)
    \/ /\ Len(equity_history) < MaxSamples
       /\ \E m \in PriceMaps : update_equity(m)

InitSignals == Init /\ ~slippage_simulator

SpecSignals == InitSignals /\ [][NextSignals]_vars

\* signals through the executor over a portfolio whose equity is sampled
\* often enough for the daily loss limit to act
NextRetry ==
    \/ \E sig \in Signals, bar \in Bars, s \in Symbols :
          /\ execute_trade_signal(sig, bar, s, Zero, Zero)
          /\ Len(trade_history') <= MaxRetryTrades
    \/ \E s \in Symbols, p \in Prices :
          /\ has_position(s) => Len(trade_history) < MaxRetryTrades
          /\ close_position(s, p)
    \/ /\ Len(equity_history) < MaxRetrySamples
       /\ \E m \in PriceMaps : update_equity(m)

SpecRetry == InitTracker /\ [][NextRetry]_vars

\* ----------------------------------------------------- NativeEngine.run
BarCounts == 0..MaxBars

\* run over a DataFrame of any length, on a fresh portfolio, with any signals
NextEngine ==
    \/ \E n \in BarCounts : run_start(n)
    \/ \E sig \in Signals, should_trade \in BOOLEAN :
          run_step(sig, [should_trade |-> should_trade], None, get_total_equity)
    \/ run_return

SpecEngine == InitTracker /\ [][NextEngine]_vars

\* the loop keeps going while it can
SpecEngineFair == SpecEngine /\ WF_vars(NextEngine)

\* ------------------------------- PositionTracker, RiskManager, OrderManager
\* every method of the three classes on one portfolio and one order book,
\* for one symbol
NextFrame ==
    \/ /\ Len(trade_history) < MaxRiskTrades
       /\ \E side \in Sides, p \in Prices, z \in Sizes :
             open_position("EURUSD", side, p, z)
    \/ \E p \in Prices :
          /\ has_position("EURUSD") => Len(trade_history) < MaxRiskTrades
          /\ close_position("EURUSD", p)
    \/ /\ Len(equity_history) < MaxSamples
       /\ \E m \in {n \in PriceMaps : n["GBPUSD"] = None} : update_equity(m)
    \/ portfolio_reads("EURUSD")
    \/ validate_trade_call("EURUSD", R(2000), R(1))
    \/ /\ Len(order_objs) < MaxFrameOrders
       /\ create_order("EURUSD", "BUY", R(50))
    \/ \E id \in 1..Len(order_objs) : execute_order(id, R(1), Zero, Zero)
    \/ \E id \in 1..Len(order_objs) : cancel_order(id)

SpecFrame == InitTracker /\ [][NextFrame]_vars

\* ------------------------------------- RiskManager.calculate_position_size
EntryPrices == {R(1), <<6, 5>>}
StopPrices == {R(1), <<11, 10>>, <<119, 100>>, <<6, 5>>, R(2)}
StakedSizes == {R(500), R(10000)}

\* sizing on a portfolio whose equity has been moved by trades and marks
NextSizing ==
    \/ /\ Len(trade_history) < MaxRiskTrades
       /\ \E side \in Sides, p \in Prices, z \in StakedSizes :
             open_position("EURUSD", side, p, z)
    \/ \E p \in Prices :
          /\ has_position("EURUSD") => Len(trade_history) < MaxRiskTrades
          /\ close_position("EURUSD", p)
    \/ /\ Len(equity_history) < MaxSamples
       /\ \E m \in {n \in PriceMaps : n["GBPUSD"] = None} : update_equity(m)
    \/ \E e \in EntryPrices, sl \in StopPrices : calculate_position_size_call(e, sl)

SpecSizing == InitTracker /\ [][NextSizing]_vars

\* ------------------------------------ RiskManager.validate_trade, daily loss
\* validation on a portfolio with up to MaxRetrySamples equity samples
NextDailyLoss ==
    \/ /\ Len(trade_history) < MaxRetryTrades
       /\ \E side \in Sides, p \in Prices, z \in StakedSizes :
             open_position("EURUSD", side, p, z)
    \/ \E p \in Prices :
          /\ has_position("EURUSD") => Len(trade_history) < MaxRetryTrades
          /\ close_position("EURUSD", p)
    \/ /\ Len(equity_history) < MaxRetrySamples
       /\ \E m \in {n \in PriceMaps : n["GBPUSD"] = None} : update_equity(m)
    \/ \E s \in Symbols : validate_trade_call(s, R(500), R(1))

SpecDailyLoss == InitTracker /\ [][NextDailyLoss]_vars

\* ----------------------------------------------------- main.trading_iteration
\* iterations of the live loop on either symbol, with any answer of the risk
\* manager, the strategies and MT5
NextLive ==
    \E symbol \in Symbols, can_trade \in BOOLEAN, action \in Signals,
       closes \in [1..MAX_CONCURRENT_TRADES -> BOOLEAN], sent \in BOOLEAN :
          trading_iteration(symbol, can_trade, action, closes, sent)

SpecLive == InitTracker /\ [][NextLive]_vars

\* --------------------------------- TradeExecutor, on a portfolio in any state
\* signals through the executor on a portfolio that starts with a direct open
\* of EURUSD and is marked, down to a negative equity
NextSizedTrades ==
    \/ /\ trade_history = <<>>
       /\ \E side \in Sides, p \in Prices, z \in StakedSizes :
             open_position("EURUSD", side, p, z)
    \/ /\ Len(equity_history) < MaxSamples
       /\ \E m \in {n \in PriceMaps : n["GBPUSD"] = None} : update_equity(m)
    \/ \E sig \in Signals, bar \in Bars, s \in Symbols :
          /\ execute_trade_signal(sig, bar, s, Zero, Zero)
          /\ Len(trade_history') <= MaxExecTrades

SpecSizedTrades == InitTracker /\ [][NextSizedTrades]_vars

\* ================================================================= claims
NoPositionOpen == \A s \in Symbols : positions[s] = None

RECURSIVE closed_pnl(_)
closed_pnl(h) ==
    IF h = <<>> THEN Zero
    ELSE RAdd(IF h[1].action = "CLOSE" THEN h[1].pnl ELSE Zero, closed_pnl(Tail(h)))

\* C1: whenever no position is open, cash equals the initial balance plus the
\* sum of the pnl of all CLOSE records (every close returns the cash the
\* position's open took, plus its realized pnl).
C1_CashConservation ==
    NoPositionOpen => cash = RAdd(R(initial_balance), closed_pnl(trade_history))

\* C2: open_position on a symbol that already has a position fails with
\* DuplicatePositionError, keeps the existing position and does not debit cash.
C2_DuplicateOpenRejected ==
    [][(call'.op = "open_position" /\ has_position(call'.symbol))
        => (/\ call'.raised = "DuplicatePositionError"
            /\ positions' = positions
            /\ cash' = cash)]_vars

\* C4: close_position on a symbol with no open position returns None and
\* leaves cash, equity_history, positions and trade_history unchanged, every
\* time it is called.
C4_IdempotentClose ==
    [][(call'.op = "close_position" /\ ~has_position(call'.symbol))
        => (/\ call'.result = None
            /\ call'.raised = NoError
            /\ UNCHANGED <<cash, equity_history, positions, trade_history>>)]_vars

\* C4 witness: a close that found nothing, right after a successful close of
\* the same symbol, with an equity sample already recorded.
C4_Witness ==
    /\ call.op = "close_position"
    /\ ~call.had_position
    /\ call.result = None
    /\ equity_history # <<>>
    /\ trade_history # <<>>
    /\ trade_history[Len(trade_history)].action = "CLOSE"
    /\ trade_history[Len(trade_history)].symbol = call.symbol

Terminal(status) == status \in {"FILLED", "CANCELLED", "REJECTED"}

\* C5: once an order is FILLED, CANCELLED or REJECTED its status and price
\* never change again, and every later execute_order or cancel_order on it
\* fails (execute_order reports no success, cancel_order returns false).
C5_StatusMonotone ==
    [][\A id \in 1..Len(order_objs) :
          Terminal(order_objs[id].status) =>
            /\ order_objs'[id].status = order_objs[id].status
            /\ order_objs'[id].price = order_objs[id].price
            /\ (call'.op = "execute_order" /\ call'.order = id)
                  => (~call'.result.success /\ filled_orders' = filled_orders)
            /\ (call'.op = "cancel_order" /\ call'.order = id)
                  => call'.result = <<FALSE>>]_vars

\* C5 witness: cancel_order was refused on an order that had been filled, and
\* the order still carries its fill price.
C5_Witness ==
    /\ call.op = "cancel_order"
    /\ ~call.was_pending
    /\ call.result = <<FALSE>>
    /\ order_objs[call.order].status = "FILLED"
    /\ \E i \in 1..Len(filled_orders) :
          /\ filled_orders[i].order_id = call.order
          /\ filled_orders[i].executed_price = order_objs[call.order].price

\* C6: execute_order on an order that is not PENDING raises
\* AlreadyProcessedError to the caller and appends nothing to filled_orders.
C6_AlreadyProcessedError ==
    [][(call'.op = "execute_order" /\ order_objs[call'.order].status # "PENDING")
        => (/\ call'.raised = "AlreadyProcessedError"
            /\ filled_orders' = filled_orders)]_vars

\* C7: every BUY fill has executed_price >= reference price and every SELL
\* fill has executed_price <= reference price.
C7_SlippageDirection ==
    \A i \in 1..Len(filled_orders) :
        LET f == filled_orders[i]
        IN  /\ f.side = "BUY" => RLe(f.requested_price, f.executed_price)
            /\ f.side = "SELL" => RLe(f.executed_price, f.requested_price)

\* C8: running the same call again with the same inputs gives the same
\* executed price (the noise depends only on what the caller passes in).
C8_Reproducible ==
    filled_orders # <<>> =>
        rerun_price = filled_orders[Len(filled_orders)].executed_price

\* C9: validate_trade never answers is_valid = TRUE for a size whose notional
\* size * price exceeds equity * max_position_size, and in that case it sets
\* adjusted_size to equity * max_position_size / price.
C9_ValidationCap ==
    (/\ call.op = "validate_trade"
     /\ RLt(RMul(get_total_equity, max_position_size), RMul(call.size, call.price)))
        => (/\ call.raised = NoError
            /\ ~call.result.is_valid
            /\ call.result.adjusted_size =
                  RDiv(RMul(get_total_equity, max_position_size), call.price))

\* C3: a signal never overwrites an open position: while a symbol has a
\* position, that position stays as it is until close_position removes it, and
\* execute_trade_signal on that symbol returns None without touching cash or
\* trade_history.
C3_NoOverwrite ==
    [][\A s \in Symbols :
          has_position(s) =>
            /\ \/ positions'[s] = positions[s]
               \/ /\ positions'[s] = None
                  /\ call'.op = "close_position"
                  /\ call'.symbol = s
            /\ (call'.op = "execute_trade_signal" /\ call'.symbol = s)
                  => (/\ call'.result = None
                      /\ cash' = cash
                      /\ trade_history' = trade_history)]_vars

\* C3 witness: a signal for the opposite side arrived for a symbol that holds
\* a position, after an equity sample, and was turned down.
C3_Witness ==
    /\ call.op = "execute_trade_signal"
    /\ call.signal \in {"BUY", "SELL"}
    /\ call.had_position
    /\ call.result = None
    /\ has_position(call.symbol)
    /\ positions[call.symbol].side # call.signal
    /\ equity_history # <<>>

\* C10: when the computed stop-loss equals the entry price the size is 0 and
\* execute_trade_signal does not trade: no order is filled, no position is
\* opened and no OPEN record is appended.
C10_ZeroStopSkipsTrade ==
    [][(/\ call'.op = "execute_trade_signal"
        /\ call'.signal \in {"BUY", "SELL"}
        /\ call'.sl = call'.entry_price)
        => (/\ call'.size = Zero
            /\ filled_orders' = filled_orders
            /\ positions' = positions
            /\ trade_history' = trade_history)]_vars

\* C11: when validate_trade reports is_valid = FALSE, execute_trade_signal
\* returns None and changes nothing: no order is created, no fill is recorded,
\* and cash, positions and trade_history stay as they were.
C11_RejectedTradeChangesNothing ==
    [][(/\ call'.op = "execute_trade_signal"
        /\ call'.signal \in {"BUY", "SELL"}
        /\ call'.raised = NoError
        /\ ~call'.validation.is_valid)
        => (/\ call'.result = None
            /\ UNCHANGED <<order_objs, orders, filled_orders>>
            /\ UNCHANGED <<cash, positions, trade_history>>)]_vars

\* C11 witness: a signal on a symbol with no position was turned down for the
\* daily loss alone, while another position is open.
C11_Witness ==
    /\ call.op = "execute_trade_signal"
    /\ call.signal \in {"BUY", "SELL"}
    /\ ~call.had_position
    /\ ~call.validation.is_valid
    /\ call.validation.reasons = <<"daily loss exceeds limit">>
    /\ call.result = None
    /\ trade_history # <<>>
    /\ order_objs # <<>>

\* C12: after execute_trade_signal returns a successful fill, the portfolio
\* holds a position on the symbol with the signal's side, entered at the
\* fill's executed price, with the filled order's size and the computed
\* stops, and cash is lower by executed_price * size.
C12_FillOpensPosition ==
    [][(/\ call'.op = "execute_trade_signal"
        /\ call'.result # None
        /\ call'.result.success)
        => (/\ positions'[call'.symbol] # None
            /\ positions'[call'.symbol].side = call'.signal
            /\ positions'[call'.symbol].entry_price = call'.result.executed_price
            /\ positions'[call'.symbol].size = call'.result.size
            /\ positions'[call'.symbol].size = order_objs'[call'.result.order_id].size
            /\ positions'[call'.symbol].sl_price = call'.sl
            /\ positions'[call'.symbol].tp_price = call'.tp
            /\ cash' = RSub(cash, RMul(call'.result.executed_price,
                                       call'.result.size)))]_vars

\* C12 witness: a fill with slippage (executed price away from the bar close)
\* opened the position it describes, next to an earlier trade.
C12_Witness ==
    /\ call.op = "execute_trade_signal"
    /\ call.result # None
    /\ call.result.success
    /\ call.result.executed_price # call.entry_price
    /\ has_position(call.symbol)
    /\ positions[call.symbol].entry_price = call.result.executed_price
    /\ call.result.size # Zero
    /\ Len(trade_history) > 1

\* bars the loop of run goes through for a DataFrame of n bars
processed(n) == IF n > warmup THEN n - warmup ELSE 0

\* C13: every pass of the engine loop calls update_equity exactly once, and
\* the value it appends to equity_curve is the equity update_equity marked.
C13_EquityMarkedEachStep ==
    [][call'.op = "run_step"
        => (/\ Len(equity_history') = Len(equity_history) + 1
            /\ engine'.equity_curve =
                  Append(engine.equity_curve, equity_history'[Len(equity_history')]))]_vars

\* C14: after run over N bars, equity_curve and signals have the same length,
\* one entry per processed bar: N - 50 entries when N > 50, none otherwise.
C14_OneEntryPerBar ==
    engine.state \in {"DONE", "FAILED"}
        => (/\ engine.state = "DONE"
            /\ Len(engine.equity_curve) = processed(engine.bars)
            /\ Len(engine.signals) = processed(engine.bars))

\* C15: every run reaches DONE and returns its results, whatever the bars and
\* the signals are.
C15_RunsToCompletion == (engine.state = "RUNNING") ~> (engine.state = "DONE")

booked(history) == history[Len(history)]

expected_size(equity, entry, stop) ==
    IF entry = stop THEN Zero
    ELSE RMax(RMin(RDiv(RMul(equity, risk_per_trade), RAbs(RSub(entry, stop))),
                   RDiv(RMul(equity, max_position_size), entry)),
              Zero)

stop_distance_of(c) == RAbs(RSub(c.entry_price, c.stop_loss))

\* C19: for the same equity and entry price, calculate_position_size with a
\* wider positive stop distance never gives a larger size: of two calls in a
\* row on the same portfolio state, the one with the wider stop returns at
\* most what the other returns.
C19_SizeMonotone ==
    [][(/\ call.op = "calculate_position_size"
        /\ call'.op = "calculate_position_size"
        /\ call'.entry_price = call.entry_price
        /\ RLt(Zero, stop_distance_of(call))
        /\ RLe(stop_distance_of(call), stop_distance_of(call')))
        => RLe(call'.result, call.result)]_vars

\* C19 witness: a size below the cap, which a narrower stop in StopPrices
\* would have made strictly larger, on an equity that trades have moved.
C19_Witness ==
    /\ call.op = "calculate_position_size"
    /\ RLt(Zero, call.result)
    /\ equity_history # <<>>
    /\ get_total_equity # R(initial_balance)
    /\ \E sl \in StopPrices :
          /\ RLt(Zero, RAbs(RSub(call.entry_price, sl)))
          /\ RLt(RAbs(RSub(call.entry_price, sl)), stop_distance_of(call))
          /\ RLt(call.result, calculate_position_size(call.entry_price, sl))

\* last/previous - 1 of the last two equity samples is below -max_daily_loss
daily_return_below_limit(h) ==
    /\ Len(h) >= 2
    /\ h[Len(h) - 1] # Zero
    /\ RLt(RSub(RDiv(h[Len(h)], h[Len(h) - 1]), R(1)), RNeg(max_daily_loss))

\* C20: validate_trade rejects, with a daily-loss reason, whenever the return
\* between the last two equity samples is below -max_daily_loss; with fewer
\* than two samples the daily-loss check neither rejects nor fails.
C20_DailyLossRejects ==
    call.op = "validate_trade"
        => (/\ daily_return_below_limit(equity_history)
                  => (/\ call.raised = NoError
                      /\ ~call.result.is_valid
                      /\ \E i \in 1..Len(call.result.reasons) :
                            call.result.reasons[i] = "daily loss exceeds limit")
            /\ Len(equity_history) < 2
                  => (/\ daily_loss(equity_history).raised = NoError
                      /\ call.raised = NoError
                            => \A i \in 1..Len(call.result.reasons) :
                                 call.result.reasons[i] # "daily loss exceeds limit"))

\* the listed orders without the order `id`
without(listed, id) ==
    LET keep(i) == i # id
    IN  SelectSeq(listed, keep)

\* C21: execute_order on a PENDING order sets it to FILLED and appends one
\* fill: requested_price is the reference price, executed_price is the
\* slippage model's price (the reference price when no model is installed),
\* slippage is executed_price - reference price; the order leaves the pending
\* list, and every other order stays as it was, pending ones listed.
C21_FillOfPendingOrder ==
    [][(call'.op = "execute_order" /\ call'.was_pending)
        => (/\ order_objs'[call'.order].status = "FILLED"
            /\ filled_orders' = Append(filled_orders, call'.result)
            /\ call'.result.success
            /\ call'.result.requested_price = call'.current_price
            /\ IF slippage_simulator
               THEN \E draw \in NoiseDraws :
                      call'.result.executed_price =
                          apply_slippage(order_objs[call'.order], call'.current_price, draw)
               ELSE call'.result.executed_price = call'.current_price
            /\ call'.result.slippage =
                  RSub(call'.result.executed_price, call'.current_price)
            /\ orders' = without(orders, call'.order)
            /\ get_pending_orders' = without(get_pending_orders, call'.order)
            /\ \A j \in 1..Len(order_objs) :
                  j # call'.order => order_objs'[j] = order_objs[j])]_vars

\* C21 witness: an order was filled through the slippage model away from the
\* reference price, and another order is still pending.
C21_Witness ==
    /\ call.op = "execute_order"
    /\ call.was_pending
    /\ slippage_simulator
    /\ order_objs[call.order].status = "FILLED"
    /\ call.result.slippage # Zero
    /\ call.result.executed_price # call.current_price
    /\ get_pending_orders # <<>>

\* C22: a negative size is refused: no order, fill or position on record has
\* a negative size (create_order, execute_trade_signal and open_position
\* stop with an error instead of recording one).
C22_NoNegativeSizeRecorded ==
    /\ \A i \in 1..Len(order_objs) : RLe(Zero, order_objs[i].size)
    /\ \A i \in 1..Len(filled_orders) : RLe(Zero, filled_orders[i].size)
    /\ \A s \in Symbols : has_position(s) => RLe(Zero, positions[s].size)

\* C23: trading_iteration never calls execute_trade for a symbol that has an
\* open position (it returns before asking for a trade decision), nor when
\* the maximum number of concurrent trades is reached, nor when the combined
\* signal is NONE.
C23_NoTradeOnHeldSymbol ==
    [][call'.op = "trading_iteration"
        => (/\ call'.had_position
                  => (~call'.executed /\ ~call'.decision_requested)
            /\ call'.open_count >= MAX_CONCURRENT_TRADES => ~call'.executed
            /\ call'.action = <<"NONE">> => ~call'.executed)]_vars

RECURSIVE one_position_per_symbol(_, _)
one_position_per_symbol(h, held) ==
    IF h = <<>> THEN TRUE
    ELSE IF h[1].action = "OPEN"
    THEN /\ h[1].symbol \notin held
         /\ one_position_per_symbol(Tail(h), held \cup {h[1].symbol})
    ELSE one_position_per_symbol(Tail(h), held \ {h[1].symbol})

\* the price a position is marked at: the one read, or its entry price
mark_of(s, prices) ==
    IF prices[s] # None THEN prices[s] ELSE positions[s].entry_price

\* floating P&L of the positions of the symbols in S, marked at `prices`
RECURSIVE floating_pnl(_, _)
floating_pnl(S, prices) ==
    IF S = {} THEN Zero
    ELSE LET s == CHOOSE x \in S : TRUE
         IN  RAdd(IF has_position(s) THEN pnl_at(positions[s], mark_of(s, prices))
                  ELSE Zero,
                  floating_pnl(S \ {s}, prices))

\* entry_price * size of the positions of the symbols in S
RECURSIVE entry_notional(_)
entry_notional(S) ==
    IF S = {} THEN Zero
    ELSE LET s == CHOOSE x \in S : TRUE
         IN  RAdd(IF has_position(s)
                  THEN RMul(positions[s].entry_price, positions[s].size) ELSE Zero,
                  entry_notional(S \ {s}))

\* C25: after opens and closes with one position per symbol, update_equity
\* appends and returns cash plus the unrealized P&L of the open positions
\* (at the entry price for a symbol missing from the prices), which equals
\* initial_balance + realized pnl + unrealized pnl - entry notional of the
\* positions still open.
C25_EquityExcludesOpenNotional ==
    (call.op = "update_equity" /\ one_position_per_symbol(trade_history, {}))
        => LET unrealized == floating_pnl(Symbols, call.prices_read)
           IN  /\ call.result = equity_history[Len(equity_history)]
               /\ call.result = RAdd(cash, unrealized)
               /\ call.result =
                     RSub(RAdd(RAdd(R(initial_balance), closed_pnl(trade_history)),
                               unrealized),
                          entry_notional(Symbols))

\* C25 witness: two positions are open, one marked at a price away from its
\* entry and one missing from the prices, and the equity is below the cash
\* the portfolio started with by more than the floating loss.
C25_Witness ==
    /\ call.op = "update_equity"
    /\ one_position_per_symbol(trade_history, {})
    /\ \E s \in Symbols, t \in Symbols :
          /\ has_position(s) /\ has_position(t)
          /\ call.prices_read[s] = None
          /\ call.prices_read[t] # None
          /\ call.prices_read[t] # positions[t].entry_price
    /\ call.result # cash
    /\ call.result # R(initial_balance)

\* the last record of trade_history is the OPEN of the one position held,
\* and the k-th sample from the end was the cash before that open
opened_after_sample(k) ==
    /\ Len(equity_history) >= k
    /\ trade_history # <<>>
    /\ booked(trade_history).action = "OPEN"
    /\ has_position(booked(trade_history).symbol)
    /\ \A s \in Symbols : has_position(s) => s = booked(trade_history).symbol
    /\ equity_history[Len(equity_history) + 1 - k] =
          RAdd(cash, entry_notional(Symbols))
    /\ RLt(Zero, equity_history[Len(equity_history) + 1 - k])
    /\ RLt(max_daily_loss,
           RDiv(entry_notional(Symbols), equity_history[Len(equity_history) + 1 - k]))
    /\ \A j \in (Len(equity_history) + 2 - k)..Len(equity_history) :
          equity_history[j] = cash

\* C26: a position of notional n opened after a sample E = cash > 0 with
\* n / E > max_daily_loss makes the next sample E - n at unchanged prices, and
\* validate_trade then rejects any trade with a daily-loss reason; after one
\* more sample at unchanged prices validate_trade reports no daily-loss
\* breach.
C26_OpenTripsDailyLossOnce ==
    call.op = "validate_trade"
        => (/\ opened_after_sample(2)
                  => (/\ call.raised = NoError
                      /\ ~call.result.is_valid
                      /\ \E i \in 1..Len(call.result.reasons) :
                            call.result.reasons[i] = "daily loss exceeds limit")
            /\ opened_after_sample(3)
                  => (/\ call.raised = NoError
                      /\ \A i \in 1..Len(call.result.reasons) :
                            call.result.reasons[i] # "daily loss exceeds limit"))

\* the orders created so far that are neither filled nor cancelled, oldest first
open_orders ==
    LET keep(i) == order_objs[i].status \notin {"FILLED", "CANCELLED"}
    IN  SelectSeq([i \in 1..Len(order_objs) |-> i], keep)

\* C27: after any create_order, execute_order and cancel_order, the pending
\* list holds exactly the orders created that were neither filled nor
\* cancelled; each of them is PENDING, get_pending_orders answers that list
\* and has_pending_orders is true iff it is not empty.
C27_PendingListExact ==
    /\ orders = open_orders
    /\ \A i \in 1..Len(orders) : order_objs[orders[i]].status = "PENDING"
    /\ get_pending_orders = orders
    /\ has_pending_orders <=> orders # <<>>

\* C27 witness: of two orders alike in every field the second was cancelled,
\* and the first is still the one on the list.
C27_Witness ==
    /\ call.op = "cancel_order"
    /\ call.was_pending
    /\ call.order = 2
    /\ order_objs[2] = [order_objs[1] EXCEPT !.status = "CANCELLED"]
    /\ orders = <<1>>
    /\ has_pending_orders

\* the records of h for one symbol, in order
records_of(h, symbol) ==
    LET mine(r) == r.symbol = symbol
    IN  SelectSeq(h, mine)

\* C28: with positions opened through execute_trade_signal and closed through
\* close_position, trade_history only grows at its end; the records of one
\* symbol alternate OPEN, CLOSE, OPEN, ... starting with OPEN; the symbol has
\* a position exactly when its last record is OPEN; every CLOSE carries the
\* entry price, side and size of the OPEN just before it.
C28_LedgerAlternates ==
    [][/\ Len(trade_history') >= Len(trade_history)
       /\ SubSeq(trade_history', 1, Len(trade_history)) = trade_history
       /\ \A s \in Symbols :
             LET hs == records_of(trade_history', s)
             IN  /\ \A i \in 1..Len(hs) :
                       hs[i].action = IF i % 2 = 1 THEN "OPEN" ELSE "CLOSE"
                 /\ (positions'[s] # None)
                       <=> (hs # <<>> /\ hs[Len(hs)].action = "OPEN")
                 /\ \A i \in 2..Len(hs) :
                       hs[i].action = "CLOSE"
                          => (/\ hs[i - 1].action = "OPEN"
                              /\ hs[i].entry_price = hs[i - 1].price
                              /\ hs[i].side = hs[i - 1].side
                              /\ hs[i].size = hs[i - 1].size)]_vars

\* C28 witness: a position entered through a fill with slippage was closed,
\* and its CLOSE record carries the fill price of the OPEN before it.
C28_Witness ==
    /\ slippage_simulator
    /\ Len(trade_history) = 2
    /\ trade_history[1].action = "OPEN"
    /\ trade_history[2].action = "CLOSE"
    /\ trade_history[2].symbol = trade_history[1].symbol
    /\ trade_history[2].entry_price = trade_history[1].price
    /\ trade_history[1].price \notin Prices
    /\ RLt(Zero, trade_history[2].size)
    /\ ~has_position(trade_history[1].symbol)

\* the parts of C29 that do not depend on the equity: a valid trade keeps the
\* proposed size, and what is placed and opened has the calculated size
sized_as_calculated(c, sized, objs, held) ==
    /\ (c.raised = NoError /\ c.validation.is_valid)
          => c.validation.adjusted_size = c.size
    /\ c.size = sized
    /\ c.result # None
          => (/\ c.result.size = c.size
              /\ objs[c.result.order_id].size = c.size
              /\ held[c.symbol].size = c.size)

\* C29 as stated: when validate_trade answers is_valid = TRUE its
\* adjusted_size is the proposed size, so every order execute_trade_signal
\* places and every position it opens has the size calculate_position_size
\* returned, and that size never fails the position-size check of
\* validate_trade for the same equity and price.
C29_CalculatedSizeIsPlaced ==
    [][(call'.op = "execute_trade_signal" /\ call'.signal \in {"BUY", "SELL"})
        => (/\ sized_as_calculated(call',
                    calculate_position_size(call'.entry_price, call'.sl),
                    order_objs', positions')
            /\ \A i \in 1..Len(call'.validation.reasons) :
                  call'.validation.reasons[i] # "position size exceeds max")]_vars

\* C29 amended: the same, with the calculated size passing the position-size
\* check whenever the equity is not negative (with a negative equity the
\* size is 0, whose notional 0 is above the negative limit).
C29_CalculatedSizeIsPlacedWhenSolvent ==
    [][(call'.op = "execute_trade_signal" /\ call'.signal \in {"BUY", "SELL"})
        => (/\ sized_as_calculated(call',
                    calculate_position_size(call'.entry_price, call'.sl),
                    order_objs', positions')
            /\ RLe(Zero, get_total_equity)
                  => \A i \in 1..Len(call'.validation.reasons) :
                        call'.validation.reasons[i] # "position size exceeds max")]_vars

\* C29 witness: on an equity that a loss has moved, a signal was filled with
\* the calculated size, which is the whole of the allowed notional.
C29_Witness ==
    /\ call.op = "execute_trade_signal"
    /\ call.result # None
    /\ equity_history # <<>>
    /\ get_total_equity # R(initial_balance)
    /\ RLt(Zero, call.size)
    /\ RMul(call.size, call.entry_price) = RMul(get_total_equity, max_position_size)
    /\ call.validation.adjusted_size = call.size
    /\ positions[call.symbol].size = call.size

\* C30: execute_trade_signal gives calculate_dynamic_stops the current bar
\* alone, so with volatility_lookback > 1 the ATR is entry_price * 0.002: the
\* stop-loss is 0.4% of the entry price away on the adverse side and the
\* take-profit 0.6% away on the favourable side, whatever the bar's range.
C30_FixedFractionStops ==
    [][(/\ call'.op = "execute_trade_signal"
        /\ call'.signal \in {"BUY", "SELL"}
        /\ volatility_lookback > 1)
        => (/\ call'.signal = "BUY"
                  => (/\ call'.sl = RMul(call'.entry_price, <<249, 250>>)
                      /\ call'.tp = RMul(call'.entry_price, <<503, 500>>))
            /\ call'.signal = "SELL"
                  => (/\ call'.sl = RMul(call'.entry_price, <<251, 250>>)
                      /\ call'.tp = RMul(call'.entry_price, <<497, 500>>))
            /\ call'.result # None
                  => (/\ positions'[call'.symbol].sl_price = call'.sl
                      /\ positions'[call'.symbol].tp_price = call'.tp))]_vars

\* C30 witness: a SELL on a bar closing at 2 with a range of 1 was filled
\* with the stop at 2.008 and the target at 1.988, after an earlier trade.
C30_Witness ==
    /\ call.op = "execute_trade_signal"
    /\ call.signal = "SELL"
    /\ volatility_lookback = 20
    /\ call.entry_price = R(2)
    /\ call.result # None
    /\ positions[call.symbol].sl_price = <<251, 125>>
    /\ positions[call.symbol].tp_price = <<497, 250>>
    /\ Len(trade_history) > 1
====
